---- MODULE Spec2Model ----
(***************************************************************************)
(* Model of the dynamic repository: the query-tree builder                 *)
(* (src/src/dynamic/query-tree.ts), the SQL emitter and the repository     *)
(* facade (src/unnamed/part_000).                                          *)
(*                                                                         *)
(* Representation of JavaScript values                                     *)
(*  - a dotted path 'a.b.c' (a selection entry, a filter or ordering       *)
(*    field) is the sequence of its segments <<"a","b","c">>, which is     *)
(*    what field.split('.') returns; field.substring(indexOf('.') + 1) is  *)
(*    then the Tail of that sequence.  A string without a dot is a         *)
(*    one-segment sequence, the empty string is <<"">>.                    *)
(*  - an optional value (undefined or given) is a sequence of length 0 or  *)
(*    1: None or Some(v).                                                  *)
(*  - a Record<string, T> that the code fills and later walks with         *)
(*    Object.keys is a sequence of [key, value] pairs in insertion order.  *)
(*  - a filter value is the sequence of its characters, so that '%'        *)
(*    wrapping, replaceAll(' ', '') and split(',') are computed.           *)
(*  - aliases, placeholders and SQL fragments are strings built with \o.   *)
(***************************************************************************)
EXTENDS Integers, Sequences, FiniteSets, TLC

VARIABLES
  pc,          \* position of the one call in flight
  args,        \* PaginatedFindParams of the call
  tree,        \* Some(QueryTree) once createTree returned
  built,       \* one entry per buildQueryTree invocation that got past line 48
  qb,          \* Some(query builder) once generateQueryBuilder returned
  dispatched,  \* calls made on the execution resource, in order
  response,    \* what the execution resource answered
  result,      \* Some(value the promise resolved with)
  error        \* Some(exception the promise rejected with)

vars == <<pc, args, tree, built, qb, dispatched, response, result, error>>

-----------------------------------------------------------------------------
(* Bounds of the model *)

\* Depth of nested buildQueryTree frames the call stack holds before the
\* engine throws RangeError (maximum call stack size exceeded).
MaxStack == 8

\* Largest number of rows the execution resource returns.
MaxRows == 2

-----------------------------------------------------------------------------
(* JavaScript helpers *)

None == <<>>

Some(v) == <<v>>

IsSome(o) == Len(o) > 0

ValueOf(o) == o[1]

\* Array.prototype.includes
includes(array, v) == \E i \in 1..Len(array) : array[i] = v

\* own enumerable keys in insertion order (Object.keys)
ObjectKeys(object) == [i \in 1..Len(object) |-> object[i].key]

hasOwn(object, k) == \E i \in 1..Len(object) : object[i].key = k

getOwn(object, k) == object[CHOOSE i \in 1..Len(object) : object[i].key = k].value

\* object[k] = v for a key that is not an accessor of Object.prototype
setOwn(object, k, v) ==
  IF hasOwn(object, k)
  THEN [i \in 1..Len(object) |->
          IF object[i].key = k THEN [key |-> k, value |-> v] ELSE object[i]]
  ELSE Append(object, [key |-> k, value |-> v])

\* Property names an object literal {} inherits from Object.prototype, as far as
\* the inputs of this model use them.  '__proto__' is an accessor: reading it
\* yields the prototype, assigning an object to it replaces the prototype and
\* creates no own key.
ObjectPrototypeKeys == {"__proto__"}

\* k in object, for an object literal (own keys and inherited ones)
inObject(k, object) == hasOwn(object, k) \/ k \in ObjectPrototypeKeys

-----------------------------------------------------------------------------
(* Schema catalog: the metadata dataSource.getMetadata returns.  The entities *)
(* are those of the documentation: Order has many Article, an Article has an  *)
(* optional Replacement, a Replacement points back to its Article, and a      *)
(* Replacement has alternative Replacements (a relation onto itself).         *)

Column(propertyName, databaseName) ==
  [propertyName |-> propertyName, databaseName |-> databaseName]

JoinKeys(joinColumns, inverseJoinColumns) ==
  [joinColumns |-> joinColumns, inverseJoinColumns |-> inverseJoinColumns]

RelationMetadata(propertyPath, target, isEager, joinColumns, inverseJoinColumns, inverseRelation) ==
  [propertyPath |-> propertyPath, inverseEntityMetadata |-> target,
   isEager |-> isEager, joinColumns |-> joinColumns,
   inverseJoinColumns |-> inverseJoinColumns,
   inverseRelation |-> inverseRelation]

Tables == {"order", "article", "replacement"}

getMetadata(table) ==
  CASE table = "order" ->
         [tableName |-> "order",
          columns |-> <<Column("id", "id"), Column("name", "name")>>,
          relations |-> <<
            RelationMetadata("articles", "article", FALSE, <<>>, <<>>,
                             Some(JoinKeys(<<"order_id">>, <<>>)))>>]
    [] table = "article" ->
         [tableName |-> "article",
          columns |-> <<Column("id", "id"), Column("price", "price"),
                        Column("order", "order_id"),
                        Column("replacement", "replacement_id")>>,
          relations |-> <<
            RelationMetadata("order", "order", FALSE, <<"order_id">>, <<>>,
                             Some(JoinKeys(<<>>, <<>>))),
            RelationMetadata("replacement", "replacement", TRUE,
                             <<"replacement_id">>, <<>>,
                             Some(JoinKeys(<<>>, <<>>)))>>]
    [] table = "replacement" ->
         [tableName |-> "replacement",
          columns |-> <<Column("id", "id"), Column("name", "name")>>,
          relations |-> <<
            RelationMetadata("article", "article", FALSE, <<>>, <<>>,
                             Some(JoinKeys(<<"replacement_id">>, <<>>))),
            RelationMetadata("alternative", "replacement", FALSE,
                             <<"replacement_id_1">>, <<"replacement_id_2">>,
                             None)>>]

\* metadata.findRelationWithPropertyPath
findRelationWithPropertyPath(metadata, propertyPath) ==
  LET found == SelectSeq(metadata.relations,
                         LAMBDA r : r.propertyPath = propertyPath)
  IN  IF Len(found) > 0 THEN Some(found[1]) ELSE None

-----------------------------------------------------------------------------
(* Query tree *)

QueryTree(name, clauses, fields) ==
  [name |-> name, clauses |-> clauses, fields |-> fields]

\* const clauses: CommonSQLClauses = {}
NoClauses == [where |-> None, ordering |-> None]

\* new QueryTree(tableSelection)
Leaf(name) == QueryTree(name, NoClauses, <<>>)

isRelation(node) == Len(node.fields) > 0

getField(node, name) ==
  LET found == SelectSeq(node.fields, LAMBDA f : f.name = name)
  IN  IF Len(found) > 0 THEN Some(found[1]) ELSE None

-----------------------------------------------------------------------------
(* Exceptions *)

RepositoryInvalidArgumentException(message) ==
  [type |-> "RepositoryInvalidArgumentException", message |-> message]

RelationDoesNotExist(relation, tableName) ==
  RepositoryInvalidArgumentException(
    "Relation '" \o relation \o "' does not exist in " \o tableName \o " entity")

FieldDoesNotExist(field, tableName) ==
  RepositoryInvalidArgumentException(
    "Field '" \o field \o "' does not exist in " \o tableName \o " entity")

\* x.push is not a function: x is Object.prototype, which has no push
TypeError == [type |-> "TypeError", message |-> "push is not a function"]

RangeError ==
  [type |-> "RangeError", message |-> "Maximum call stack size exceeded"]

-----------------------------------------------------------------------------
(* Query tree builder: buildQueryTree *)

\* relationTableNames after the forEach over metadata.relations
relationTableNames(metadata) ==
  [i \in 1..Len(metadata.relations) |->
     [key |-> metadata.relations[i].propertyPath,
      value |-> metadata.relations[i].inverseEntityMetadata]]

\* names of the columns that are not relations
tableFields(metadata) ==
  LET plain == SelectSeq(metadata.columns,
                 LAMBDA c : ~ inObject(c.propertyName, relationTableNames(metadata)))
  IN  [i \in 1..Len(plain) |-> plain[i].propertyName]

RECURSIVE addMissingFields(_, _)
\* tableFields.forEach: push every field the selection list does not include
addMissingFields(selections, fields) ==
  IF Len(fields) = 0 THEN selections
  ELSE addMissingFields(
         IF includes(selections, <<Head(fields)>>) THEN selections
         ELSE Append(selections, <<Head(fields)>>),
         Tail(fields))

\* the wildcard branch: remove every '*', then add the table fields not present
expandWildcard(selections, fields) ==
  IF includes(selections, <<"*">>)
  THEN addMissingFields(SelectSeq(selections, LAMBDA s : s # <<"*">>), fields)
  ELSE selections

\* A thrown exception ends the forEach: the node keeps its error.
raise(node, exception) == [node EXCEPT !.error = Some(exception)]

\* The locals of one buildQueryTree invocation
\*   prototypeIsArray: relationsSelections['__proto__'] = [] was executed, which
\*   replaced the prototype of relationsSelections by that array
Locals(relationsSelections, tableSelections) ==
  [relationsSelections |-> relationsSelections, prototypeIsArray |-> FALSE,
   tableSelections |-> tableSelections,
   relationsFilters |-> <<>>, tableFilters |-> <<>>,
   relationOrderBy |-> <<>>, tableOrdering |-> <<>>,
   error |-> None]

\* object[k].push(v), after object[k] = [] when k was not a key
pushOwn(object, k, v) ==
  setOwn(object, k, Append(IF hasOwn(object, k) THEN getOwn(object, k) ELSE <<>>, v))

\* body of selections.forEach
selectField(node, field, metadata) ==
  IF IsSome(node.error) THEN node
  ELSE IF Len(field) > 1 THEN
    IF ~ inObject(field[1], relationTableNames(metadata))
    THEN raise(node, RelationDoesNotExist(field[1], metadata.tableName))
    ELSE IF field[1] \in ObjectPrototypeKeys
    THEN \* relation in relationsSelections holds by inheritance, and
         \* relationsSelections[relation] reads the prototype: Object.prototype
         \* (no push), or the array installed before (the push succeeds)
         IF node.prototypeIsArray THEN node ELSE raise(node, TypeError)
    ELSE [node EXCEPT !.relationsSelections = pushOwn(@, field[1], Tail(field))]
  ELSE
    IF inObject(field[1], relationTableNames(metadata))
    THEN IF field[1] \in ObjectPrototypeKeys
         THEN [node EXCEPT !.prototypeIsArray = TRUE]
         ELSE [node EXCEPT !.relationsSelections = setOwn(@, field[1], <<>>)]
    ELSE IF ~ includes(tableFields(metadata), field[1])
    THEN raise(node, FieldDoesNotExist(field[1], metadata.tableName))
    ELSE [node EXCEPT !.tableSelections = Append(@, field[1])]

RECURSIVE forEachSelection(_, _, _)
forEachSelection(node, selections, metadata) ==
  IF Len(selections) = 0 THEN node
  ELSE forEachSelection(selectField(node, Head(selections), metadata),
                        Tail(selections), metadata)

\* Variant of defaultRelations that selects non-eager relations also when
\* onlyEager is set; the default selection rule tells the two apart.
defaultRelationsOfAnyKind(metadata, onlyEager, allowRecursively, exploredEntities) ==
  SelectSeq(metadata.relations,
            LAMBDA r : (~ includes(exploredEntities, r.inverseEntityMetadata))
                       \/ includes(allowRecursively, r.inverseEntityMetadata))

\* Variant of defaultRelations without the test on exploredEntities; the cycle
\* rule tells the two apart.
defaultRelationsRevisiting(metadata, onlyEager, allowRecursively, exploredEntities) ==
  SelectSeq(metadata.relations, LAMBDA r : (~ onlyEager) \/ r.isEager)

\* the relations the default selection keeps: eager ones when onlyEager, and
\* among them those whose target is not explored or is allowed recursively
defaultRelations(metadata, onlyEager, allowRecursively, exploredEntities) ==
  SelectSeq(
    SelectSeq(metadata.relations, LAMBDA r : (~ onlyEager) \/ r.isEager),
    LAMBDA r : (~ includes(exploredEntities, r.inverseEntityMetadata))
               \/ includes(allowRecursively, r.inverseEntityMetadata))

\* relationsSelections[relation.propertyPath] = [] for each of the relations
selectEntirely(relations) ==
  [i \in 1..Len(relations) |-> [key |-> relations[i].propertyPath, value |-> <<>>]]

\* if (selections?.length)
selectionsGiven(queryOptions) ==
  IsSome(queryOptions.selections) /\ Len(ValueOf(queryOptions.selections)) > 0

\* const { onlyEager = true, allowRecursively = [] } = findOptions
onlyEagerOf(findOptions) ==
  IF IsSome(findOptions.onlyEager) THEN ValueOf(findOptions.onlyEager) ELSE TRUE

\* Variant of allowRecursivelyOf that drops the option; the documented
\* three-level join tells the two apart.
allowNothing(findOptions) == <<>>

allowRecursivelyOf(findOptions) ==
  IF IsSome(findOptions.allowRecursively)
  THEN ValueOf(findOptions.allowRecursively) ELSE <<>>

\* if (selections?.length) { ... } else { ... }
resolveSelections(metadata, queryOptions, findOptions, exploredEntities) ==
  IF selectionsGiven(queryOptions)
  THEN forEachSelection(
         Locals(<<>>, <<>>),
         expandWildcard(ValueOf(queryOptions.selections), tableFields(metadata)),
         metadata)
  ELSE Locals(selectEntirely(defaultRelations(metadata, onlyEagerOf(findOptions),
                                              allowRecursivelyOf(findOptions),
                                              exploredEntities)),
              tableFields(metadata))

\* if (!tableSelections.includes(field)) tableSelections.push(field)
selectIfMissing(tableSelections, field) ==
  IF includes(tableSelections, field) THEN tableSelections
  ELSE Append(tableSelections, field)

\* body of where.forEach
filterField(node, filter, metadata) ==
  IF IsSome(node.error) THEN node
  ELSE IF Len(filter.field) > 1 THEN
    IF ~ inObject(filter.field[1], relationTableNames(metadata))
    THEN raise(node, RelationDoesNotExist(filter.field[1], metadata.tableName))
    ELSE IF filter.field[1] \in ObjectPrototypeKeys
    THEN \* relationsFilters[relation] is Object.prototype: truthy, without push
         raise(node, TypeError)
    ELSE [node EXCEPT !.relationsFilters =
            pushOwn(@, filter.field[1], [filter EXCEPT !.field = Tail(@)])]
  ELSE
    IF ~ includes(tableFields(metadata), filter.field[1])
    THEN raise(node, FieldDoesNotExist(filter.field[1], metadata.tableName))
    ELSE [node EXCEPT !.tableSelections = selectIfMissing(@, filter.field[1]),
                      !.tableFilters = Append(@, filter)]

RECURSIVE forEachFilter(_, _, _)
forEachFilter(node, where, metadata) ==
  IF Len(where) = 0 THEN node
  ELSE forEachFilter(filterField(node, Head(where), metadata), Tail(where), metadata)

\* if (where) { ... }
resolveWhere(node, where, metadata) ==
  IF IsSome(node.error) \/ ~ IsSome(where) THEN node
  ELSE forEachFilter(node, ValueOf(where), metadata)

\* body of ordering.forEach
orderField(node, orderBy, metadata) ==
  IF IsSome(node.error) THEN node
  ELSE IF Len(orderBy.field) > 1 THEN
    IF ~ inObject(orderBy.field[1], relationTableNames(metadata))
    THEN raise(node, RelationDoesNotExist(orderBy.field[1], metadata.tableName))
    ELSE IF orderBy.field[1] \in ObjectPrototypeKeys
    THEN \* relationOrderBy[relation] is Object.prototype: truthy, without push
         raise(node, TypeError)
    ELSE [node EXCEPT !.relationOrderBy =
            pushOwn(@, orderBy.field[1], [orderBy EXCEPT !.field = Tail(@)])]
  ELSE
    IF ~ includes(tableFields(metadata), orderBy.field[1])
    THEN raise(node, FieldDoesNotExist(orderBy.field[1], metadata.tableName))
    ELSE [node EXCEPT !.tableSelections = selectIfMissing(@, orderBy.field[1]),
                      !.tableOrdering = Append(@, orderBy)]

RECURSIVE forEachOrderBy(_, _, _)
forEachOrderBy(node, ordering, metadata) ==
  IF Len(ordering) = 0 THEN node
  ELSE forEachOrderBy(orderField(node, Head(ordering), metadata),
                      Tail(ordering), metadata)

\* if (ordering) { ... }
resolveOrdering(node, ordering, metadata) ==
  IF IsSome(node.error) \/ ~ IsSome(ordering) THEN node
  ELSE forEachOrderBy(node, ValueOf(ordering), metadata)

\* clauses.where = tableFilters, clauses.ordering = tableOrdering, each only
\* when the option was given
clausesOf(queryOptions, node) ==
  [where |-> IF IsSome(queryOptions.where) THEN Some(node.tableFilters) ELSE None,
   ordering |-> IF IsSome(queryOptions.ordering)
                THEN Some(node.tableOrdering) ELSE None]

\* tableSelections.forEach: one simple child node per selection
leaves(tableSelections) ==
  [i \in 1..Len(tableSelections) |-> Leaf(tableSelections[i])]

\* the queryOptions handed to the recursive call for one relation
relationQueryOptions(relation, node) ==
  [selections |-> Some(getOwn(node.relationsSelections, relation)),
   ordering |-> IF hasOwn(node.relationOrderBy, relation)
                THEN Some(getOwn(node.relationOrderBy, relation)) ELSE None,
   where |-> IF hasOwn(node.relationsFilters, relation)
             THEN Some(getOwn(node.relationsFilters, relation)) ELSE None]

\* the relations a subtree is built for: Object.keys(relationsSelections)
relationsToBuild(node) == ObjectKeys(node.relationsSelections)

\* What an invocation hands back: the node, or the exception it threw; the
\* array exploredEntities, which all invocations of one call share; and built,
\* the history of the traversal: one entry per invocation, in call order, with
\* the path of property names from the root, the entity, the explored entities
\* after its own push and the options it was called with.
Outcome(node, exploredEntities, log, exception) ==
  [tree |-> node, exploredEntities |-> exploredEntities, built |-> log,
   error |-> exception]

visited(frame, propertyPath, metadata, exploredEntities, queryOptions) ==
  Append(frame.built,
         [path |-> Append(frame.path, propertyPath),
          table |-> metadata.tableName,
          exploredEntities |-> exploredEntities,
          queryOptions |-> queryOptions])

\* fields.push(buildQueryTree(...)): an exception of the child ends the loop
pushField(acc, child) ==
  Outcome(IF IsSome(child.error) THEN acc.tree
          ELSE [acc.tree EXCEPT !.fields = Append(@, child.tree)],
          child.exploredEntities, child.built, child.error)

RECURSIVE buildQueryTree(_, _, _, _, _, _)
RECURSIVE buildRelations(_, _, _, _, _, _)

\* the part of buildQueryTree after the selections, filters and ordering were
\* resolved into node: the leaves, then one subtree per relation
buildFields(propertyPath, findOptions, queryOptions, exploredEntities, frame, metadata, node) ==
  IF IsSome(node.error)
  THEN Outcome(Leaf(propertyPath), exploredEntities,
               visited(frame, propertyPath, metadata, exploredEntities, queryOptions),
               node.error)
  ELSE buildRelations(
         relationsToBuild(node), node, metadata, findOptions,
         Outcome(QueryTree(propertyPath, clausesOf(queryOptions, node),
                           leaves(node.tableSelections)),
                 exploredEntities,
                 visited(frame, propertyPath, metadata, exploredEntities, queryOptions),
                 None),
         [depth |-> frame.depth + 1, path |-> Append(frame.path, propertyPath)])

\* exploredEntities is the array after exploredEntities.push(metadata.tableName)
buildNode(propertyPath, findOptions, queryOptions, exploredEntities, frame, metadata) ==
  buildFields(
    propertyPath, findOptions, queryOptions, exploredEntities, frame, metadata,
    resolveOrdering(
      resolveWhere(
        resolveSelections(metadata, queryOptions, findOptions, exploredEntities),
        queryOptions.where, metadata),
      queryOptions.ordering, metadata))

\* Variant of buildQueryTree without exploredEntities.push; termination on
\* cyclic schemas tells the two apart.
buildQueryTreeNoPush(table, propertyPath, findOptions, queryOptions, exploredEntities, frame) ==
  IF frame.depth > MaxStack
  THEN Outcome(Leaf(propertyPath), exploredEntities, frame.built, Some(RangeError))
  ELSE buildNode(propertyPath, findOptions, queryOptions, exploredEntities,
                 frame, getMetadata(table))

\* frame: depth of this invocation on the call stack, path of its parent, and
\* the history so far.  The engine throws RangeError when the stack is full.
buildQueryTree(table, propertyPath, findOptions, queryOptions, exploredEntities, frame) ==
  IF frame.depth > MaxStack
  THEN Outcome(Leaf(propertyPath), exploredEntities, frame.built, Some(RangeError))
  ELSE buildNode(propertyPath, findOptions, queryOptions,
                 Append(exploredEntities, getMetadata(table).tableName),
                 frame, getMetadata(table))

\* Object.keys(relationsSelections).forEach: acc.tree is this node with the
\* fields pushed so far
buildRelations(keys, node, metadata, findOptions, acc, frame) ==
  IF Len(keys) = 0 \/ IsSome(acc.error) THEN acc
  ELSE buildRelations(
         Tail(keys), node, metadata, findOptions,
         pushField(acc,
                   buildQueryTree(
                     getOwn(relationTableNames(metadata), Head(keys)), Head(keys),
                     findOptions, relationQueryOptions(Head(keys), node),
                     acc.exploredEntities,
                     [depth |-> frame.depth, path |-> frame.path,
                      built |-> acc.built])),
         frame)

\* QueryTree.createTree(dataSource, entityClass, queryOptions, findOptions)
createTree(entityClass, queryOptions, findOptions) ==
  buildQueryTree(entityClass, entityClass, findOptions, queryOptions, <<>>,
                 [depth |-> 1, path |-> <<>>, built |-> <<>>])

-----------------------------------------------------------------------------
(* SQL emitter *)

ALIAS_STRATEGY == "__"

RECURSIVE addSelections(_, _)
\* push every new selection the list does not include yet
addSelections(selections, newSelections) ==
  IF Len(newSelections) = 0 THEN selections
  ELSE addSelections(
         IF includes(selections, Head(newSelections)) THEN selections
         ELSE Append(selections, Head(newSelections)),
         Tail(newSelections))

\* columns.map((joinColumn) => alias + '.' + joinColumn.databaseName)
qualified(alias, columns) ==
  [i \in 1..Len(columns) |-> alias \o "." \o columns[i]]

\* Variant of selectJoinNeccessaryAttributes that leaves out the keys of the
\* inverse relation; a joined one-to-many relation tells the two apart.
selectOwnJoinAttributes(selections, relation, alias, relationAlias) ==
  addSelections(
    addSelections(selections, qualified(alias, relation.joinColumns)),
    qualified(relationAlias, relation.inverseJoinColumns))

selectJoinNeccessaryAttributes(selections, relation, alias, relationAlias) ==
  LET own == addSelections(
               addSelections(selections, qualified(alias, relation.joinColumns)),
               qualified(relationAlias, relation.inverseJoinColumns))
  IN  IF ~ IsSome(relation.inverseRelation) THEN own
      ELSE addSelections(
             addSelections(
               own,
               qualified(relationAlias,
                         ValueOf(relation.inverseRelation).joinColumns)),
             qualified(alias,
                       ValueOf(relation.inverseRelation).inverseJoinColumns))

selectEntityQueryFields(selections, node, alias) ==
  LET plain == SelectSeq(node.fields, LAMBDA f : ~ isRelation(f))
  IN  addSelections(selections,
                    [i \in 1..Len(plain) |-> alias \o "." \o plain[i].name])

\* one call on the query builder; parameters is the object handed to andWhere
call(method, arguments, parameters) ==
  [method |-> method, args |-> arguments, parameters |-> parameters]

\* qb.addOrderBy(sort, order)
addOrderBy(builder, sort, order) ==
  [builder EXCEPT !.calls = Append(@, call("addOrderBy", <<sort, order>>, <<>>))]

\* body of tree.clauses.ordering.forEach
orderByEntry(builder, entry, alias) ==
  CASE entry.type = "asc" -> addOrderBy(builder, alias \o "." \o entry.field[1], "ASC")
    [] entry.type = "desc" -> addOrderBy(builder, alias \o "." \o entry.field[1], "DESC")
    [] OTHER -> builder

RECURSIVE forEachOrdering(_, _, _)
forEachOrdering(builder, ordering, alias) ==
  IF Len(ordering) = 0 THEN builder
  ELSE forEachOrdering(orderByEntry(builder, Head(ordering), alias),
                       Tail(ordering), alias)

addOrderByOptions(builder, node, alias) ==
  IF IsSome(node.clauses.ordering)
  THEN forEachOrdering(builder, ValueOf(node.clauses.ordering), alias)
  ELSE builder

\* qb.andWhere(where, { [placeholder]: bound }): the condition is AND-ed and the
\* parameter is set on the builder, replacing one of the same name
andWhere(builder, where, placeholder, bound) ==
  [builder EXCEPT
     !.calls = Append(@, call("andWhere", <<where>>,
                              <<[key |-> placeholder, value |-> bound]>>)),
     !.parameters = setOwn(@, placeholder, bound)]

\* a parameter bound to one string
scalar(value) == [spread |-> FALSE, values |-> <<value>>]

\* a parameter bound to a list of strings (used as :...name)
list(values) == [spread |-> TRUE, values |-> values]

\* value.replaceAll(' ', '')
removeSpaces(value) == SelectSeq(value, LAMBDA c : c # " ")

RECURSIVE split(_)
\* value.split(',')
split(value) ==
  IF ~ includes(value, ",") THEN <<value>>
  ELSE LET i == CHOOSE k \in 1..Len(value) :
                  value[k] = "," /\ \A j \in 1..(k - 1) : value[j] # ","
       IN  <<SubSeq(value, 1, i - 1)>> \o split(SubSeq(value, i + 1, Len(value)))

\* the condition and the parameter of one filter
compare(builder, sqlField, comparison, placeholder, bound) ==
  andWhere(builder, sqlField \o comparison \o placeholder, placeholder, bound)

\* body of tree.clauses.where.forEach
whereField(builder, filter, sqlField, placeholder) ==
  CASE filter.operator = "in" ->
         andWhere(builder, sqlField \o " IN (:..." \o placeholder \o ")",
                  placeholder, list(split(removeSpaces(filter.value))))
    [] filter.operator = "contains" ->
         compare(builder, sqlField, " LIKE :", placeholder,
                 scalar(<<"%">> \o filter.value \o <<"%">>))
    [] filter.operator = "startsWith" ->
         compare(builder, sqlField, " LIKE :", placeholder,
                 scalar(filter.value \o <<"%">>))
    [] filter.operator = "endsWith" ->
         compare(builder, sqlField, " LIKE :", placeholder,
                 scalar(<<"%">> \o filter.value))
    [] filter.operator = "<" ->
         compare(builder, sqlField, " < :", placeholder, scalar(filter.value))
    [] filter.operator = "<=" ->
         compare(builder, sqlField, " <= :", placeholder, scalar(filter.value))
    [] filter.operator = ">" ->
         compare(builder, sqlField, " > :", placeholder, scalar(filter.value))
    [] filter.operator = ">=" ->
         compare(builder, sqlField, " >= :", placeholder, scalar(filter.value))
    [] filter.operator = "!=" ->
         compare(builder, sqlField, " != :", placeholder, scalar(filter.value))
    [] OTHER ->
         compare(builder, sqlField, " = :", placeholder, scalar(filter.value))

\* const placeholder = alias + ALIAS_STRATEGY + field; const sqlField = alias + '.' + field
whereEntry(builder, filter, alias) ==
  whereField(builder, filter, alias \o "." \o filter.field[1],
             alias \o ALIAS_STRATEGY \o filter.field[1])

RECURSIVE forEachWhere(_, _, _)
forEachWhere(builder, where, alias) ==
  IF Len(where) = 0 THEN builder
  ELSE forEachWhere(whereEntry(builder, Head(where), alias), Tail(where), alias)

addWhereOptions(builder, node, alias) ==
  IF IsSome(node.clauses.where)
  THEN forEachWhere(builder, ValueOf(node.clauses.where), alias)
  ELSE builder

\* qb.leftJoin(property, alias); joins keeps, for each join issued, the alias and
\* entity it starts from, the relation it follows, and the selections array as
\* it is when the join is issued
leftJoin(builder, alias, table, relation, relationAlias, selections) ==
  [builder EXCEPT
     !.calls = Append(@, call("leftJoin",
                              <<alias \o "." \o relation.propertyPath, relationAlias>>,
                              <<>>)),
     !.joins = Append(@, [alias |-> alias, table |-> table,
                          relation |-> relation.propertyPath,
                          relationAlias |-> relationAlias,
                          selected |-> selections])]

RECURSIVE buildQueryRecursively(_, _, _, _)
RECURSIVE forEachRelation(_, _, _, _)

\* qb.leftJoin on the builder a subtree's query was built on
joinLast(emitter, alias, metadata, relation, relationAlias) ==
  [qb |-> leftJoin(emitter.qb, alias, metadata.tableName, relation, relationAlias, emitter.selections),
   selections |-> emitter.selections]

\* Variant of joinSelected that builds the query of the subtree before it joins
\* the relation; the order of the builder calls tells the two apart.
joinAfterSubtree(relationTree, builder, selections, alias, metadata, relation, relationAlias) ==
  joinLast(
    buildQueryRecursively(relationTree, [qb |-> builder, selections |-> selections],
                          relationAlias, getMetadata(relation.inverseEntityMetadata)),
    alias, metadata, relation, relationAlias)

\* the join keys are selected: qb.leftJoin, then the query of the subtree under
\* the relation's alias
joinSelected(relationTree, builder, selections, alias, metadata, relation, relationAlias) ==
  buildQueryRecursively(
    relationTree,
    [qb |-> leftJoin(builder, alias, metadata.tableName, relation, relationAlias, selections),
     selections |-> selections],
    relationAlias,
    getMetadata(relation.inverseEntityMetadata))

\* the relation exists in the entity: select its join keys, join it, and build
\* the query of its subtree under the relation's alias
joinRelation(relationTree, emitter, alias, metadata, relation, relationAlias) ==
  joinSelected(
    relationTree, emitter.qb,
    selectJoinNeccessaryAttributes(emitter.selections, relation, alias, relationAlias),
    alias, metadata, relation, relationAlias)

\* Variant of emitRelation that derives the alias of the join from the table
\* of the owning entity rather than from the alias of the parent.
emitRelationByTable(relationTree, emitter, alias, metadata, relation) ==
  IF IsSome(relation)
  THEN joinRelation(relationTree, emitter, alias, metadata, ValueOf(relation),
                    metadata.tableName \o ALIAS_STRATEGY \o ValueOf(relation).propertyPath)
  ELSE emitter

\* body of the forEach over the relation children; relation is what
\* metadata.findRelationWithPropertyPath(relationTree.name) returned
emitRelation(relationTree, emitter, alias, metadata, relation) ==
  IF IsSome(relation)
  THEN joinRelation(relationTree, emitter, alias, metadata, ValueOf(relation),
                    alias \o ALIAS_STRATEGY \o ValueOf(relation).propertyPath)
  ELSE emitter

\* emitter: [qb |-> the builder, selections |-> the selections array]
buildQueryRecursively(node, emitter, alias, metadata) ==
  forEachRelation(
    SelectSeq(node.fields, LAMBDA f : isRelation(f)),
    [qb |-> addWhereOptions(addOrderByOptions(emitter.qb, node, alias), node, alias),
     selections |-> selectEntityQueryFields(emitter.selections, node, alias)],
    alias, metadata)

\* tree.fields.filter((field) => field.isRelation()).forEach
forEachRelation(relationTrees, emitter, alias, metadata) ==
  IF Len(relationTrees) = 0 THEN emitter
  ELSE forEachRelation(
         Tail(relationTrees),
         emitRelation(Head(relationTrees), emitter, alias, metadata,
                      findRelationWithPropertyPath(metadata,
                                                   Head(relationTrees).name)),
         alias, metadata)

\* dataSource.createQueryBuilder(entityClass, alias)
createQueryBuilder(alias) ==
  [alias |-> alias, calls |-> <<>>, parameters |-> <<>>, selects |-> <<>>,
   joins |-> <<>>, skip |-> None, take |-> None]

\* qb.select(selection): replaces the selected attributes
select(builder, selection) ==
  [builder EXCEPT !.calls = Append(@, call("select", selection, <<>>)),
                  !.selects = selection]

\* qb.select(selections) at the end of generateQueryBuilder
selectAccumulated(emitter) == select(emitter.qb, emitter.selections)

generateQueryBuilder(entityClass, queryTree) ==
  selectAccumulated(
    buildQueryRecursively(
      queryTree,
      [qb |-> select(createQueryBuilder(getMetadata(entityClass).tableName), <<>>),
       selections |-> <<>>],
      getMetadata(entityClass).tableName,
      getMetadata(entityClass)))

-----------------------------------------------------------------------------
(* Inputs of the calls *)

FilterType(field, operator, value) ==
  [field |-> field, operator |-> operator, value |-> value]

OrderingBy(field, type) == [field |-> field, type |-> type]

CommonQueryOptions(selections, where, ordering) ==
  [selections |-> selections, where |-> where, ordering |-> ordering]

CommonFindOptions(onlyEager, allowRecursively) ==
  [onlyEager |-> onlyEager, allowRecursively |-> allowRecursively]

\* queryOptions.selections: absent, empty, or one of these lists
SelectionLists ==
  { None, Some(<<>>),
    Some(<< <<"*">> >>),
    Some(<< <<"id">> >>),
    Some(<< <<"name">>, <<"*">> >>),
    Some(<< <<"*">>, <<"id">>, <<"id">> >>),
    Some(<< <<"bogus">> >>),
    Some(<< <<"*">>, <<"bogus", "id">> >>),
    Some(<< <<"__proto__">> >>),
    Some(<< <<"*">>, <<"articles">> >>),
    Some(<< <<"*">>, <<"articles", "*">> >>),
    Some(<< <<"id">>, <<"articles", "order", "id">> >>),
    Some(<< <<"replacement">> >>),
    Some(<< <<"article">>, <<"alternative", "name">> >>),
    Some(<< <<"article">>, <<"alternative">> >>),
    Some(<< <<"articles">>, <<"articles", "id">> >>),
    Some(<< <<"articles", "id">>, <<"articles">> >>),
    Some(<< <<"id">>, <<"articles", "__proto__">> >>),
    Some(<< <<"id">>, <<"article", "replacement", "article">> >>) }

\* queryOptions.where together with queryOptions.ordering
ClauseLists ==
  { <<None, None>>,
    <<Some(<<FilterType(<<"id">>, "=", <<"7">>)>>),
      Some(<<OrderingBy(<<"id">>, "desc")>>)>>,
    <<Some(<<FilterType(<<"articles", "price">>, ">", <<"1", "0">>)>>),
      Some(<<OrderingBy(<<"articles", "id">>, "asc"),
             OrderingBy(<<"name">>, "random")>>)>>,
    <<Some(<<FilterType(<<"replacement", "name">>, "contains", <<"a">>),
             FilterType(<<"id">>, "in", <<"1", ",", " ", "2">>)>>),
      None>>,
    <<Some(<<FilterType(<<"id">>, ">", <<"1", "0">>),
             FilterType(<<"id">>, "<", <<"2", "0">>)>>),
      Some(<<OrderingBy(<<"articles", "id">>, "asc"),
             OrderingBy(<<"id">>, "desc")>>)>>,
    <<Some(<<FilterType(<<"articles", "bogus">>, "=", <<"1">>)>>), None>> }

\* findOptions: omitted fields take their defaults
FindOptions ==
  { CommonFindOptions(e, a) :
      e \in {None, Some(FALSE)},
      a \in {None, Some(<<"article">>), Some(<<"replacement">>)} }

PaginatedFindParams(operation, entityClass, queryOptions, findOptions, skip, take) ==
  [operation |-> operation, entityClass |-> entityClass,
   queryOptions |-> queryOptions, findOptions |-> findOptions,
   skip |-> skip, take |-> take]

QueryOptions ==
  { CommonQueryOptions(s, c[1], c[2]) : s \in SelectionLists, c \in ClauseLists }

\* the arguments of a call of operation with skip and take among pages
Calls(operation, pages) ==
  { PaginatedFindParams(operation, t, q, f, page[1], page[2]) :
      t \in Tables, q \in QueryOptions, f \in FindOptions, page \in pages }

\* find: without pagination, or with a limit
FindCalls == Calls("find", { <<None, None>>, <<None, Some(1)>> })

\* findAndCount: skip and take not given, 0 or 1
FindAndCountCalls ==
  Calls("findAndCount",
        { <<None, None>>, <<Some(0), None>>, <<None, Some(0)>>,
          <<Some(1), None>>, <<None, Some(1)>> })

\* findOne takes no pagination
FindOneCalls == Calls("findOne", { <<None, None>> })

\* the rows the execution resource can return
Rows == { [i \in 1..n |-> i] : n \in 0..MaxRows }

-----------------------------------------------------------------------------
(* Repository facade *)

\* Variant of noPagination that tests only whether skip and take were given;
\* a call with skip: 0 tells the two apart.
neitherGiven(skip, take) == (~ IsSome(skip)) /\ (~ IsSome(take))

\* !x for an optional number
falsy(x) == (~ IsSome(x)) \/ ValueOf(x) = 0

\* if (!skip && !take)
noPagination(skip, take) == falsy(skip) /\ falsy(take)

\* [findResults, findResults.length]
countedResults(findResults) == <<findResults, Len(findResults)>>

\* The part of a call after createTree returned or threw (made): an exception
\* rejects the promise before a builder exists; otherwise generateQueryBuilder,
\* qb.skip(skip).take(take) and the fetch, up to the await.
continue(a, fetch, made) ==
  /\ args' = Some(a)
  /\ built' = made.built
  /\ UNCHANGED <<response, result>>
  /\ IF IsSome(made.error)
     THEN /\ pc' = "failed"
          /\ error' = made.error
          /\ UNCHANGED <<tree, qb, dispatched>>
     ELSE /\ pc' = "awaiting"
          /\ tree' = Some(made.tree)
          /\ qb' = Some([generateQueryBuilder(a.entityClass, made.tree)
                           EXCEPT !.skip = a.skip, !.take = a.take])
          /\ dispatched' = Append(dispatched, fetch)
          /\ UNCHANGED error

\* The synchronous part of a call, from QueryTree.createTree on
prepare(a, fetch) ==
  /\ pc = "idle"
  /\ continue(a, fetch, createTree(a.entityClass, a.queryOptions, a.findOptions))

find(a) == prepare(a, "getMany")

findAndCount(a) ==
  IF noPagination(a.skip, a.take)
  THEN find(a)
  ELSE prepare(a, "getManyAndCount")

findOne(a) == prepare(a, "getOne")

awaiting(fetch) ==
  /\ pc = "awaiting"
  /\ dispatched[Len(dispatched)] = fetch

\* getMany() resolves: find returns the rows, and findAndCount, which awaited
\* find, returns them with their number
getManyResolves(rows) ==
  /\ awaiting("getMany")
  /\ pc' = "done"
  /\ response' = Some(rows)
  /\ result' = IF ValueOf(args).operation = "findAndCount"
               THEN Some(countedResults(rows))
               ELSE Some(rows)
  /\ UNCHANGED <<args, tree, built, qb, dispatched, error>>

\* getManyAndCount() resolves with the page and the total
getManyAndCountResolves(rows, total) ==
  /\ awaiting("getManyAndCount")
  /\ total >= Len(rows)
  /\ pc' = "done"
  /\ response' = Some(<<rows, total>>)
  /\ result' = Some(<<rows, total>>)
  /\ UNCHANGED <<args, tree, built, qb, dispatched, error>>

\* getOne() resolves with a row or null
getOneResolves(row) ==
  /\ awaiting("getOne")
  /\ pc' = "done"
  /\ response' = Some(row)
  /\ result' = Some(row)
  /\ UNCHANGED <<args, tree, built, qb, dispatched, error>>

Init ==
  /\ pc = "idle"
  /\ args = None
  /\ tree = None
  /\ built = <<>>
  /\ qb = None
  /\ dispatched = <<>>
  /\ response = None
  /\ result = None
  /\ error = None

\* A caller invokes one of the three operations
Find == pc = "idle" /\ \E a \in FindCalls : find(a)

FindAndCount == pc = "idle" /\ \E a \in FindAndCountCalls : findAndCount(a)

FindOne == pc = "idle" /\ \E a \in FindOneCalls : findOne(a)

\* The execution resource answers the fetch in flight
GetManyResolves == \E rows \in Rows : getManyResolves(rows)

GetManyAndCountResolves ==
  \E rows \in Rows, total \in 0..MaxRows : getManyAndCountResolves(rows, total)

GetOneResolves == \E row \in {None, Some(1)} : getOneResolves(row)

Next ==
  \/ Find
  \/ FindAndCount
  \/ FindOne
  \/ GetManyResolves
  \/ GetManyAndCountResolves
  \/ GetOneResolves

Spec == Init /\ [][Next]_vars

-----------------------------------------------------------------------------
(* Vocabulary of the properties *)

\* the arguments of the call made
theCall == ValueOf(args)

\* createTree returned: the tree and the query builder exist
returned == pc \in {"awaiting", "done"}

\* createTree threw
failed == pc = "failed"

Range(seq) == { seq[i] : i \in 1..Len(seq) }

noDuplicates(seq) == \A i, j \in 1..Len(seq) : seq[i] = seq[j] => i = j

RECURSIVE firstOccurrences(_)
\* seq without the later occurrences of a value
firstOccurrences(seq) ==
  IF Len(seq) = 0 THEN <<>>
  ELSE LET front == firstOccurrences(SubSeq(seq, 1, Len(seq) - 1))
       IN  IF includes(front, seq[Len(seq)]) THEN front
           ELSE Append(front, seq[Len(seq)])

RECURSIVE descend(_, _)
\* the node reached from node along the property names of path, if any
descend(node, path) ==
  IF Len(path) = 0 THEN Some(node)
  ELSE IF IsSome(getField(node, Head(path)))
  THEN descend(ValueOf(getField(node, Head(path))), Tail(path))
  ELSE None

\* the node of the returned tree at a path of the traversal history (a path
\* starts with the name of the root)
nodeAt(path) == descend(ValueOf(tree), Tail(path))

leafNames(node) ==
  LET plain == SelectSeq(node.fields, LAMBDA f : ~ isRelation(f))
  IN  [i \in 1..Len(plain) |-> plain[i].name]

relationNames(node) ==
  LET nested == SelectSeq(node.fields, LAMBDA f : isRelation(f))
  IN  [i \in 1..Len(nested) |-> nested[i].name]

\* names of the non-relation columns of a table, from the catalog
columnNames(table) ==
  { getMetadata(table).columns[i].propertyName :
      i \in 1..Len(getMetadata(table).columns) }
  \ { getMetadata(table).relations[i].propertyPath :
        i \in 1..Len(getMetadata(table).relations) }

relationsOf(table) == Range(getMetadata(table).relations)

\* the invocations of buildQueryTree, by position in the history
Invocations == 1..Len(built)

\* invocation i ran the default selection (no selections, or an empty list)
ranDefault(i) ==
  (~ IsSome(built[i].queryOptions.selections))
  \/ Len(ValueOf(built[i].queryOptions.selections)) = 0

\* invocation p built the node under which invocation i built its node
isParent(p, i) ==
  /\ Len(built[i].path) = Len(built[p].path) + 1
  /\ SubSeq(built[i].path, 1, Len(built[p].path)) = built[p].path

\* invocation a built a node on the path from the root to the node of i
isAncestor(a, i) ==
  /\ Len(built[a].path) < Len(built[i].path)
  /\ SubSeq(built[i].path, 1, Len(built[a].path)) = built[a].path

\* what the entity had visited before invocation i pushed its own entity
visitedBefore(i) ==
  Range(SubSeq(built[i].exploredEntities, 1, Len(built[i].exploredEntities) - 1))

\* onlyEager and allowRecursively as the caller gave them, with the documented
\* defaults
onlyEagerGiven ==
  IF Len(theCall.findOptions.onlyEager) = 0 THEN TRUE
  ELSE theCall.findOptions.onlyEager[1]

allowedGiven ==
  IF Len(theCall.findOptions.allowRecursively) = 0 THEN {}
  ELSE Range(theCall.findOptions.allowRecursively[1])

\* the selections, where and ordering entries of the call
selectionsOfCall ==
  IF Len(theCall.queryOptions.selections) = 0 THEN <<>>
  ELSE theCall.queryOptions.selections[1]

whereOfCall ==
  IF Len(theCall.queryOptions.where) = 0 THEN <<>>
  ELSE theCall.queryOptions.where[1]

orderingOfCall ==
  IF Len(theCall.queryOptions.ordering) = 0 THEN <<>>
  ELSE theCall.queryOptions.ordering[1]

-----------------------------------------------------------------------------
(* Properties of the query tree builder *)

\* invocation i was given a selection list that contains '*'
wildcardGiven(i) ==
  /\ IsSome(built[i].queryOptions.selections)
  /\ includes(ValueOf(built[i].queryOptions.selections), <<"*">>)

\* the bare entries of the selection list of invocation i that name a column,
\* in list order, then the columns of the entity in catalog order
columnsByOccurrence(i) ==
  LET bare == SelectSeq(ValueOf(built[i].queryOptions.selections),
                        LAMBDA s : Len(s) = 1 /\ s[1] \in columnNames(built[i].table))
  IN  [k \in 1..Len(bare) |-> bare[k][1]] \o tableFields(getMetadata(built[i].table))

\* C1: a node built from a selection list that contains '*' has as leaves
\* exactly the non-relation columns of its entity, each once, in the order of
\* their first occurrence, also when the list repeats a bare field.
C1_WildcardLeavesExact ==
  returned =>
    \A i \in Invocations :
      wildcardGiven(i) =>
        /\ IsSome(nodeAt(built[i].path))
        /\ noDuplicates(leafNames(ValueOf(nodeAt(built[i].path))))
        /\ leafNames(ValueOf(nodeAt(built[i].path)))
             = firstOccurrences(columnsByOccurrence(i))

\* the node of the returned tree at the relation level a dotted field addresses
levelOf(field) == descend(ValueOf(tree), SubSeq(field, 1, Len(field) - 1))

\* the level a field addresses was built and has a leaf named after the field
selectedAtItsLevel(field) ==
  /\ IsSome(levelOf(field))
  /\ includes(leafNames(ValueOf(levelOf(field))), field[Len(field)])

\* C2: for every where entry and every ordering entry of the call, the node
\* of the returned tree at the level the entry's dot-path addresses has a leaf
\* named after the entry's field.
C2_FilterImpliesSelect ==
  returned =>
    /\ \A k \in 1..Len(whereOfCall) : selectedAtItsLevel(whereOfCall[k].field)
    /\ \A k \in 1..Len(orderingOfCall) : selectedAtItsLevel(orderingOfCall[k].field)

\* field is 'rel.sub' with rel a relation of the root entity
addressesRelation(field) ==
  /\ Len(field) = 2
  /\ \E r \in relationsOf(theCall.entityClass) : r.propertyPath = field[1]

\* the query left-joins the relation rel of the root under the alias root__rel
joinsRelation(rel) ==
  \E j \in 1..Len(ValueOf(qb).joins) :
    /\ ValueOf(qb).joins[j].alias = theCall.entityClass
    /\ ValueOf(qb).joins[j].relation = rel
    /\ ValueOf(qb).joins[j].relationAlias = theCall.entityClass \o "__" \o rel

\* the returned tree has a relation subtree rel whose where clauses carry entry
\* with field 'sub', and the query joins rel and has a condition on its alias
filteredOnRelation(entry) ==
  LET rel == entry.field[1]
      sub == getField(ValueOf(tree), rel)
  IN  /\ IsSome(sub)
      /\ isRelation(ValueOf(sub))
      /\ IsSome(ValueOf(sub).clauses.where)
      /\ includes(ValueOf(ValueOf(sub).clauses.where),
                  [entry EXCEPT !.field = Tail(@)])
      /\ joinsRelation(rel)
      /\ \E c \in 1..Len(ValueOf(qb).calls) :
           /\ ValueOf(qb).calls[c].method = "andWhere"
           /\ ValueOf(qb).calls[c].parameters[1].key
                = theCall.entityClass \o "__" \o rel \o "__" \o entry.field[2]

\* the same for an ordering entry of type asc or desc
orderedOnRelation(entry) ==
  LET rel == entry.field[1]
      sub == getField(ValueOf(tree), rel)
  IN  /\ IsSome(sub)
      /\ isRelation(ValueOf(sub))
      /\ IsSome(ValueOf(sub).clauses.ordering)
      /\ includes(ValueOf(ValueOf(sub).clauses.ordering),
                  [entry EXCEPT !.field = Tail(@)])
      /\ joinsRelation(rel)
      /\ \E c \in 1..Len(ValueOf(qb).calls) :
           /\ ValueOf(qb).calls[c].method = "addOrderBy"
           /\ ValueOf(qb).calls[c].args[1]
                = theCall.entityClass \o "__" \o rel \o "." \o entry.field[2]

\* C3: for every where or ordering entry 'rel.sub' with rel a relation of the
\* entity, the returned tree has a relation subtree rel whose clauses carry the
\* entry with field 'sub', and the query left-joins rel and applies the
\* condition or order on the joined alias, whether selections are given or not.
C3_FilteredRelationsBuilt ==
  returned =>
    /\ \A k \in 1..Len(whereOfCall) :
         addressesRelation(whereOfCall[k].field)
           => filteredOnRelation(whereOfCall[k])
    /\ \A k \in 1..Len(orderingOfCall) :
         addressesRelation(orderingOfCall[k].field)
           => orderedOnRelation(orderingOfCall[k])

\* relation r of an entity passes the onlyEager test of the call
eligible(r) == (~ onlyEagerGiven) \/ r.isEager

\* the relations the default selection is documented to keep at invocation i:
\* eligible, and with a target that is not visited or is allowed recursively
keptByDefault(i) ==
  { r \in relationsOf(built[i].table) :
      /\ eligible(r)
      /\ \/ r.inverseEntityMetadata \notin Range(built[i].exploredEntities)
         \/ r.inverseEntityMetadata \in allowedGiven }

\* C4: a node built with no or an empty selection list has as leaves all
\* non-relation columns of its entity, and as relation children exactly the
\* relations r of the entity with (onlyEager false or r eager) and (target of r
\* not visited, or listed in allowRecursively); omitted findOptions mean
\* onlyEager true and allowRecursively empty.
C4_DefaultSelection ==
  returned =>
    \A i \in Invocations :
      ranDefault(i) =>
        /\ IsSome(nodeAt(built[i].path))
        /\ noDuplicates(leafNames(ValueOf(nodeAt(built[i].path))))
        /\ Range(leafNames(ValueOf(nodeAt(built[i].path))))
             = columnNames(built[i].table)
        /\ noDuplicates(relationNames(ValueOf(nodeAt(built[i].path))))
        /\ Range(relationNames(ValueOf(nodeAt(built[i].path))))
             = { r.propertyPath : r \in keptByDefault(i) }

\* a default selection kept one relation to a visited entity because it is
\* allowed and dropped another because its target is visited and not allowed
C4_DefaultSelectionApplied ==
  /\ returned
  /\ \E i \in Invocations :
       /\ ranDefault(i)
       /\ \E r \in keptByDefault(i) :
            r.inverseEntityMetadata \in Range(built[i].exploredEntities)
       /\ \E r \in relationsOf(built[i].table) \ keptByDefault(i) : eligible(r)

\* C5, as the documentation states it for default selection: a subtree that the
\* default selection of its parent node chose has a target entity that was not
\* visited when the parent was built, hence is none of its ancestors' entities,
\* unless the entity is listed in allowRecursively.  Relations named in an
\* explicit selection are built whatever was visited.
C5_DefaultSelectionAvoidsVisited ==
  \A p, i \in Invocations :
    (isParent(p, i) /\ ranDefault(p) /\ built[i].table \notin allowedGiven) =>
      /\ built[i].table \notin Range(built[p].exploredEntities)
      /\ \A a \in Invocations : isAncestor(a, i) => built[a].table # built[i].table

\* a default selection met an eligible relation to a visited entity that is not
\* allowed, and the returned tree has no subtree for it
C5_RelationToVisitedDropped ==
  /\ returned
  /\ \E p \in Invocations :
       /\ ranDefault(p)
       /\ \E r \in relationsOf(built[p].table) :
            /\ eligible(r)
            /\ r.inverseEntityMetadata \in Range(built[p].exploredEntities)
            /\ r.inverseEntityMetadata \notin allowedGiven
            /\ ~ IsSome(getField(ValueOf(nodeAt(built[p].path)), r.propertyPath))

\* C5 as the specification states it: no subtree of a returned tree, however its relation was
\* reached, has a target entity that was visited before the subtree was built,
\* unless the entity is listed in allowRecursively.
C5_NoSubtreeOntoVisited ==
  returned =>
    \A i \in Invocations :
      Len(built[i].path) > 1 =>
        \/ built[i].table \notin visitedBefore(i)
        \/ built[i].table \in allowedGiven

\* the targets of the eligible relations of entity t that are allowed
allowedTargets(t) ==
  { r.inverseEntityMetadata : r \in { x \in relationsOf(t) : eligible(x) } }
  \cap allowedGiven

RECURSIVE reachableWithinAllowed(_, _)
\* the allowed entities reached from the set from over eligible relations that
\* stay within the allowed entities
reachableWithinAllowed(from, steps) ==
  IF steps = 0 THEN from
  ELSE reachableWithinAllowed(
         from \cup UNION { allowedTargets(t) : t \in from }, steps - 1)

\* some cycle of eligible relations runs through allowed entities only
cycleWithinAllowed ==
  \E t \in allowedGiven :
    t \in reachableWithinAllowed(allowedTargets(t), Cardinality(Tables))

\* the entities on the path from the root to the node of invocation i
entitiesAlong(i) ==
  [k \in 1..Len(built[i].path) |->
     built[CHOOSE a \in Invocations :
             built[a].path = SubSeq(built[i].path, 1, k)].table]

occurrences(seq, v) == Cardinality({ k \in 1..Len(seq) : seq[k] = v })

rangeError == failed /\ ValueOf(error).type = "RangeError"

\* the relations the query joins, in the order of the joins
joinedRelations == [j \in 1..Len(ValueOf(qb).joins) |-> ValueOf(qb).joins[j].relation]

\* the documented call: Order with every relation selected by default and
\* Article allowed recursively
documentedCall ==
  /\ theCall.entityClass = "order"
  /\ Len(selectionsOfCall) = 0
  /\ ~ onlyEagerGiven
  /\ allowedGiven = {"article"}

\* C6, as the code has it: a listed entity is re-entered by default selection
\* wherever a relation reaches it, so createTree returns unless a cycle of
\* eligible relations runs through listed entities only (a listed entity with a
\* relation onto itself); without such a cycle and under default selection an
\* entity that is not listed occurs at most once on a path and a listed one at
\* most once more than there are entities not listed, and the documented
\* Order -> Article -> Replacement -> Article call yields three joins, Article
\* joined twice and Replacement once.
C6_ReentryOfAllowedEntity ==
  pc # "idle" =>
    /\ rangeError => cycleWithinAllowed
    /\ (Len(selectionsOfCall) = 0 /\ ~ cycleWithinAllowed) =>
         \A i \in Invocations :
           \A t \in Tables :
             occurrences(entitiesAlong(i), t)
               <= IF t \in allowedGiven
                  THEN Cardinality(Tables \ allowedGiven) + 1 ELSE 1
    /\ (returned /\ documentedCall) =>
         joinedRelations = <<"articles", "replacement", "article">>

\* the documented call returned with Article entered a second time
C6_ArticleReentered ==
  /\ returned
  /\ documentedCall
  /\ \E i \in Invocations : occurrences(entitiesAlong(i), "article") = 2

\* C6 as the specification states it: with entities listed in allowRecursively createTree returns,
\* also when a listed entity has a relation onto itself, a listed entity being
\* re-entered for one further level only.
C6_ReentryAlwaysBounded ==
  (pc # "idle" /\ allowedGiven # {}) =>
    /\ ~ rangeError
    /\ Len(selectionsOfCall) = 0 =>
         \A i \in Invocations :
           \A t \in allowedGiven : occurrences(entitiesAlong(i), t) <= 2

\* the longest explicit dot-path of the call
explicitDepth ==
  IF Len(selectionsOfCall) = 0 THEN 0
  ELSE CHOOSE d \in { Len(selectionsOfCall[k]) : k \in 1..Len(selectionsOfCall) } :
         \A k \in 1..Len(selectionsOfCall) : Len(selectionsOfCall[k]) <= d

\* C7: with allowRecursively empty createTree terminates on the cyclic schema
\* for every input and either value of onlyEager, a subtree chosen by default
\* selection has an entity none of its ancestors has, and no node lies deeper
\* than the number of entities plus the depth of the explicit dot-paths.
C7_TerminationWithoutAllowance ==
  (pc # "idle" /\ allowedGiven = {}) =>
    /\ ~ rangeError
    /\ \A p, i \in Invocations :
         (isParent(p, i) /\ ranDefault(p)) =>
           \A a \in Invocations : isAncestor(a, i) => built[a].table # built[i].table
    /\ \A i \in Invocations :
         Len(built[i].path) <= Cardinality(Tables) + explicitDepth

\* every relation of the cyclic schema was eligible, nothing was allowed, and
\* the traversal from Order ended after Article and Replacement
C7_CyclicSchemaTraversed ==
  /\ returned
  /\ allowedGiven = {}
  /\ ~ onlyEagerGiven
  /\ theCall.entityClass = "order"
  /\ Len(selectionsOfCall) = 0
  /\ [i \in Invocations |-> built[i].table] = <<"order", "article", "replacement">>

relationNamesOf(table) == { r.propertyPath : r \in relationsOf(table) }

\* a selection entry that is neither '*', nor a non-relation column, nor a
\* relation name, or a dotted entry whose first segment is no relation name
unknownEntry(entry, table) ==
  IF Len(entry) = 1
  THEN /\ entry[1] # "*"
       /\ entry[1] \notin columnNames(table)
       /\ entry[1] \notin relationNamesOf(table)
  ELSE entry[1] \notin relationNamesOf(table)

\* the messages that name the entry and the table
messagesNaming(entry, table) ==
  { "Field '" \o entry[1] \o "' does not exist in " \o table \o " entity",
    "Relation '" \o entry[1] \o "' does not exist in " \o table \o " entity" }

\* C8: a call whose selection list has an unknown entry fails with an
\* invalid-argument error whose message names the entry and the entity's table,
\* during tree construction: no tree, no query builder, nothing dispatched.
C8_UnknownSelectionRejected ==
  (/\ pc # "idle"
   /\ \E k \in 1..Len(selectionsOfCall) :
        unknownEntry(selectionsOfCall[k], theCall.entityClass)) =>
    /\ failed
    /\ ValueOf(error).type = "RepositoryInvalidArgumentException"
    /\ \E k \in 1..Len(selectionsOfCall) :
         /\ unknownEntry(selectionsOfCall[k], theCall.entityClass)
         /\ ValueOf(error).message
              \in messagesNaming(selectionsOfCall[k], theCall.entityClass)
    /\ tree = None
    /\ qb = None
    /\ dispatched = <<>>

-----------------------------------------------------------------------------
(* Properties of the SQL emitter *)

\* the relation a join follows, from the catalog
relationOfJoin(join) ==
  CHOOSE r \in relationsOf(join.table) : r.propertyPath = join.relation

\* alias.column for every column of the list
keysOf(alias, columns) == { alias \o "." \o columns[k] : k \in 1..Len(columns) }

\* the join keys of both sides of a join, and those of the inverse relation
keysOfJoin(join) ==
  LET r == relationOfJoin(join)
  IN  keysOf(join.alias, r.joinColumns)
      \cup keysOf(join.relationAlias, r.inverseJoinColumns)
      \cup (IF Len(r.inverseRelation) = 0 THEN {}
            ELSE keysOf(join.relationAlias, r.inverseRelation[1].joinColumns)
                 \cup keysOf(join.alias, r.inverseRelation[1].inverseJoinColumns))

\* C9: for every left join issued, the selection list handed to the builder
\* holds the join columns under the parent alias, the inverse join columns under
\* the child alias and the keys of the inverse relation, whatever sub-selection
\* the relation had; and the list has no duplicate.
C9_JoinKeysSelected ==
  returned =>
    /\ noDuplicates(ValueOf(qb).selects)
    /\ ValueOf(qb).calls[Len(ValueOf(qb).calls)]
         = call("select", ValueOf(qb).selects, <<>>)
    /\ \A j \in 1..Len(ValueOf(qb).joins) :
         keysOfJoin(ValueOf(qb).joins[j]) \subseteq Range(ValueOf(qb).selects)

\* a relation whose keys lie on the inverse side was selected bare from the
\* root, and one with keys on both of its own sides was joined too
C9_BareRelationJoined ==
  /\ returned
  /\ \E k \in 1..Len(selectionsOfCall) :
       /\ Len(selectionsOfCall[k]) = 1
       /\ \E j \in 1..Len(ValueOf(qb).joins) :
            /\ ValueOf(qb).joins[j].alias = theCall.entityClass
            /\ ValueOf(qb).joins[j].relation = selectionsOfCall[k][1]
            /\ keysOfJoin(ValueOf(qb).joins[j]) # {}
  /\ \E j \in 1..Len(ValueOf(qb).joins) :
       Len(relationOfJoin(ValueOf(qb).joins[j]).inverseJoinColumns) > 0

-----------------------------------------------------------------------------
(* Properties of the repository facade *)

absent(x) == Len(x) = 0

absentOrZero(x) == Len(x) = 0 \/ x[1] = 0

\* findAndCount resolved with the rows of the fetch and their number
countsTheRows ==
  result = Some(<<ValueOf(response), Len(ValueOf(response))>>)

\* C10, as the code has it: findAndCount with skip and take each absent or 0
\* dispatches one getMany, as find does, and returns the rows with their
\* number; with a non-zero skip or take it dispatches one getManyAndCount; find
\* returns the rows of its one getMany.
C10_CountWithoutPagination ==
  /\ (pc # "idle" /\ theCall.operation = "findAndCount") =>
       /\ failed => dispatched = <<>>
       /\ IF absentOrZero(theCall.skip) /\ absentOrZero(theCall.take)
          THEN /\ returned => dispatched = <<"getMany">>
               /\ pc = "done" => countsTheRows
          ELSE /\ returned => dispatched = <<"getManyAndCount">>
               /\ pc = "done" => result = response
  /\ (pc # "idle" /\ theCall.operation = "find") =>
       /\ returned => dispatched = <<"getMany">>
       /\ pc = "done" => result = response

\* findAndCount was given skip: 0 and resolved with rows and their number
C10_ZeroOffsetCounted ==
  /\ pc = "done"
  /\ theCall.operation = "findAndCount"
  /\ theCall.skip = Some(0)
  /\ absent(theCall.take)
  /\ Len(ValueOf(response)) > 0
  /\ countsTheRows

\* C10 as the specification states it: findAndCount with neither skip nor take given dispatches one
\* getMany and returns the rows with their number, and with skip or take given
\* it dispatches one getManyAndCount.
C10_CombinedFetchWhenGiven ==
  (pc # "idle" /\ theCall.operation = "findAndCount") =>
    IF absent(theCall.skip) /\ absent(theCall.take)
    THEN /\ returned => dispatched = <<"getMany">>
         /\ pc = "done" => countsTheRows
    ELSE returned => dispatched = <<"getManyAndCount">>

-----------------------------------------------------------------------------
(* Further properties of the query tree builder *)

\* the node of invocation i has the default selection: every non-relation
\* column of its entity as leaves, and the relations kept by default
hasDefaultSelection(i) ==
  /\ IsSome(nodeAt(built[i].path))
  /\ Range(leafNames(ValueOf(nodeAt(built[i].path)))) = columnNames(built[i].table)
  /\ Range(relationNames(ValueOf(nodeAt(built[i].path))))
       = { r.propertyPath : r \in keptByDefault(i) }

\* C11: whenever the selection list of the call holds the bare name of a
\* relation of the entity, the subtree of that relation has the default
\* selection, wherever the bare entry stands relative to dotted entries of the
\* same relation.
C11_BareRelationInFull ==
  returned =>
    \A k \in 1..Len(selectionsOfCall) :
      (/\ Len(selectionsOfCall[k]) = 1
       /\ selectionsOfCall[k][1] \in relationNamesOf(theCall.entityClass)) =>
        \E i \in Invocations :
          /\ built[i].path = <<theCall.entityClass, selectionsOfCall[k][1]>>
          /\ hasDefaultSelection(i)

RECURSIVE addressedEntity(_, _)
\* the entity the relation segments of path lead to from table, if each
\* segment is a relation of the entity before it
addressedEntity(table, path) ==
  IF Len(path) = 0 THEN Some(table)
  ELSE IF Head(path) \in relationNamesOf(table)
  THEN addressedEntity(
         (CHOOSE r \in relationsOf(table) : r.propertyPath = Head(path))
           .inverseEntityMetadata,
         Tail(path))
  ELSE None

\* a segment of the dot-path is no relation, or the final segment is no
\* non-relation column of the entity the path addresses
invalidField(field) ==
  LET entity == addressedEntity(theCall.entityClass, SubSeq(field, 1, Len(field) - 1))
  IN  \/ ~ IsSome(entity)
      \/ field[Len(field)] \notin columnNames(ValueOf(entity))

\* createTree threw an invalid-argument error and no query was built
rejected ==
  /\ failed
  /\ ValueOf(error).type = "RepositoryInvalidArgumentException"
  /\ qb = None
  /\ dispatched = <<>>

\* C12: a call with a where or ordering entry whose dot-path or final field
\* does not exist fails in createTree with an invalid-argument error and no
\* query is built, whatever the selection list is.
C12_InvalidFilterRejected ==
  (/\ pc # "idle"
   /\ \/ \E k \in 1..Len(whereOfCall) : invalidField(whereOfCall[k].field)
      \/ \E k \in 1..Len(orderingOfCall) : invalidField(orderingOfCall[k].field))
    => rejected

\* C13: during default selection an eligible relation whose target entity is
\* not on the path from the root to the current node is selected and its subtree
\* built, also when the entity was explored on a sibling branch before.
C13_VisitedSetIsAncestry ==
  returned =>
    \A p \in Invocations :
      ranDefault(p) =>
        \A r \in relationsOf(built[p].table) :
          (/\ eligible(r)
           /\ r.inverseEntityMetadata \notin Range(entitiesAlong(p))) =>
            IsSome(getField(ValueOf(nodeAt(built[p].path)), r.propertyPath))

-----------------------------------------------------------------------------
(* Further properties of the SQL emitter *)

\* the calls made on the query builder, by position
BuilderCalls == 1..Len(ValueOf(qb).calls)

builderCall(c) == ValueOf(qb).calls[c]

\* C14: after emission, for every condition added to the query the parameters
\* of the builder bind the placeholder of the condition to the value derived
\* from that condition, so no two conditions of one query share a placeholder,
\* also when they filter the same field at the same level.
C14_PlaceholderBoundToOwnValue ==
  returned =>
    \A c \in BuilderCalls :
      builderCall(c).method = "andWhere" =>
        /\ hasOwn(ValueOf(qb).parameters, builderCall(c).parameters[1].key)
        /\ getOwn(ValueOf(qb).parameters, builderCall(c).parameters[1].key)
             = builderCall(c).parameters[1].value
        /\ \A d \in BuilderCalls :
             (d # c /\ builderCall(d).method = "andWhere") =>
               builderCall(d).parameters[1].key # builderCall(c).parameters[1].key

\* the names of all children of a node, leaves and subtrees
childNames(node) == [k \in 1..Len(node.fields) |-> node.fields[k].name]

\* C15: in every returned tree no two children of a node have the same name,
\* also when the selection list repeats an entry or a filter or ordering names
\* a field that is selected already.
C15_SiblingNamesUnique ==
  returned =>
    \A i \in Invocations :
      /\ IsSome(nodeAt(built[i].path))
      /\ noDuplicates(childNames(ValueOf(nodeAt(built[i].path))))

RECURSIVE aliasOf(_)
\* the alias of the node at a path: the property names joined by '__'
aliasOf(path) ==
  IF Len(path) = 1 THEN path[1]
  ELSE aliasOf(SubSeq(path, 1, Len(path) - 1)) \o "__" \o path[Len(path)]

\* the query joins the relation at path under the alias of the path
joinedAt(path) ==
  \E j \in 1..Len(ValueOf(qb).joins) :
    /\ ValueOf(qb).joins[j].relationAlias = aliasOf(path)
    /\ ValueOf(qb).joins[j].relation = path[Len(path)]

\* the query selects the node at path as a column of its parent
selectedAsColumn(path) ==
  includes(ValueOf(qb).selects,
           aliasOf(SubSeq(path, 1, Len(path) - 1)) \o "." \o path[Len(path)])

\* C16: in a returned tree a node has children exactly if a recursive call for
\* a relation built it, so every relation a call was made for is emitted as a
\* left join and not as a column, and only relations are joined.
C16_RelationsAreJoined ==
  returned =>
    /\ \A i \in Invocations :
         Len(built[i].path) > 1 =>
           /\ IsSome(nodeAt(built[i].path))
           /\ isRelation(ValueOf(nodeAt(built[i].path)))
           /\ joinedAt(built[i].path)
           /\ ~ selectedAsColumn(built[i].path)
    /\ \A i \in Invocations :
         \A k \in 1..Len(ValueOf(nodeAt(built[i].path)).fields) :
           isRelation(ValueOf(nodeAt(built[i].path)).fields[k]) =>
             \E c \in Invocations :
               built[c].path
                 = Append(built[i].path, ValueOf(nodeAt(built[i].path)).fields[k].name)
    /\ \A j \in 1..Len(ValueOf(qb).joins) :
         ValueOf(qb).joins[j].relation \in relationNamesOf(ValueOf(qb).joins[j].table)

\* builder call c is the left join that introduces alias
introduces(c, alias) ==
  /\ builderCall(c).method = "leftJoin"
  /\ builderCall(c).args[2] = alias

\* the clauses of the node at path, per kind, or none
clausesAt(path, kind) ==
  IF kind = "where"
  THEN IF IsSome(ValueOf(nodeAt(path)).clauses.where)
       THEN ValueOf(ValueOf(nodeAt(path)).clauses.where) ELSE <<>>
  ELSE IF IsSome(ValueOf(nodeAt(path)).clauses.ordering)
       THEN ValueOf(ValueOf(nodeAt(path)).clauses.ordering) ELSE <<>>

\* builder call c is a condition or an ORDER BY entry of the node at path
refersTo(c, path) ==
  \/ /\ builderCall(c).method = "andWhere"
     /\ \E k \in 1..Len(clausesAt(path, "where")) :
          builderCall(c).parameters[1].key
            = aliasOf(path) \o "__" \o clausesAt(path, "where")[k].field[1]
  \/ /\ builderCall(c).method = "addOrderBy"
     /\ \E k \in 1..Len(clausesAt(path, "ordering")) :
          builderCall(c).args[1]
            = aliasOf(path) \o "." \o clausesAt(path, "ordering")[k].field[1]

\* C17: the join keys of a relation are in the selections array when its left
\* join is issued; in the sequence of builder calls every condition and ORDER
\* BY entry of a joined alias comes after the left join that introduces the
\* alias, and the join of an alias after the join of its parent alias.
C17_JoinBeforeUse ==
  returned =>
    /\ \A j \in 1..Len(ValueOf(qb).joins) :
         keysOfJoin(ValueOf(qb).joins[j]) \subseteq Range(ValueOf(qb).joins[j].selected)
    /\ \A i \in Invocations :
         (Len(built[i].path) > 1 /\ isRelation(ValueOf(nodeAt(built[i].path)))) =>
           /\ \E l \in BuilderCalls : introduces(l, aliasOf(built[i].path))
           /\ \A c \in BuilderCalls :
                refersTo(c, built[i].path) =>
                  \E l \in 1..(c - 1) : introduces(l, aliasOf(built[i].path))
           /\ Len(built[i].path) > 2 =>
                \A c \in BuilderCalls :
                  introduces(c, aliasOf(built[i].path)) =>
                    \E l \in 1..(c - 1) :
                      introduces(l, aliasOf(SubSeq(built[i].path, 1,
                                                   Len(built[i].path) - 1)))

\* a joined relation carries a condition and an ORDER BY entry, and a relation
\* of it is joined below
C17_ClausesOnJoinedAlias ==
  /\ returned
  /\ \E i, n \in Invocations :
       /\ Len(built[i].path) = 2
       /\ isParent(i, n)
       /\ \E l \in BuilderCalls : introduces(l, aliasOf(built[n].path))
       /\ \E c, d \in BuilderCalls :
            /\ refersTo(c, built[i].path) /\ builderCall(c).method = "andWhere"
            /\ refersTo(d, built[i].path) /\ builderCall(d).method = "addOrderBy"

\* the left joins of the query, in the order issued
joinsOfQuery == ValueOf(qb).joins

\* the entity a left join leads to
targetOfJoin(join) == relationOfJoin(join).inverseEntityMetadata

\* C18: the alias of every left join is the alias of its parent, '__' and the
\* property name of the relation, the parent alias being the alias of the root
\* (its table name) or the alias of an earlier join; no two left joins of one
\* query share an alias.
C18_AliasesUnique ==
  returned =>
    /\ ValueOf(qb).alias = getMetadata(theCall.entityClass).tableName
    /\ \A j \in 1..Len(joinsOfQuery) :
         /\ joinsOfQuery[j].relationAlias
              = joinsOfQuery[j].alias \o "__" \o joinsOfQuery[j].relation
         /\ \/ joinsOfQuery[j].alias = ValueOf(qb).alias
            \/ \E k \in 1..(j - 1) :
                 joinsOfQuery[k].relationAlias = joinsOfQuery[j].alias
    /\ \A j, k \in 1..Len(joinsOfQuery) :
         joinsOfQuery[j].relationAlias = joinsOfQuery[k].relationAlias => j = k

\* one entity is joined twice in a query, once of them below a join, with an
\* entity allowed recursively
C18_EntityJoinedTwice ==
  /\ returned
  /\ allowedGiven # {}
  /\ \E j, k \in 1..Len(joinsOfQuery) :
       /\ j # k
       /\ targetOfJoin(joinsOfQuery[j]) = targetOfJoin(joinsOfQuery[k])
       /\ joinsOfQuery[k].alias # ValueOf(qb).alias

\* the ORDER BY entries of the query, in the order the builder received them
orderByOfQuery ==
  LET added == SelectSeq(ValueOf(qb).calls, LAMBDA c : c.method = "addOrderBy")
  IN  [k \in 1..Len(added) |-> added[k].args]

\* the entries of the caller's ordering list with a recognised direction
recognised == SelectSeq(orderingOfCall, LAMBDA o : o.type \in {"asc", "desc"})

\* alias.field and ASC or DESC for an entry of the caller's ordering list
orderByOf(entry) ==
  << aliasOf(<<getMetadata(theCall.entityClass).tableName>>
             \o SubSeq(entry.field, 1, Len(entry.field) - 1))
       \o "." \o entry.field[Len(entry.field)],
     IF entry.type = "asc" THEN "ASC" ELSE "DESC" >>

\* C19: the ORDER BY sequence of the builder is the caller's ordering list in
\* the order supplied, every entry qualified as alias.field and mapped to ASC
\* or DESC, entries with an unrecognised direction dropped.
C19_OrderByAsSupplied ==
  returned =>
    orderByOfQuery = [k \in 1..Len(recognised) |-> orderByOf(recognised[k])]

====
